---- MODULE Spec2Model ----
(***************************************************************************)
(* The demand based signal control of the four way intersection:           *)
(* Traffic_light (trafficlight.py), Controller (controller.py) and the     *)
(* scheduler pass of Grid (grid.py).  One action per agent step of the     *)
(* BaseScheduler pass: the lights in registration order, then the          *)
(* controller.                                                             *)
(***************************************************************************)
EXTENDS Integers, Sequences, FiniteSets, TLC

VARIABLES
    traffic_lights, \* Grid.traffic_lights: the Traffic_light objects, in registration order
    cells,          \* per light, the offsets 0..9 of its approach lane that hold a car
    green_lights,   \* Controller.green_lights
    time,           \* Controller.time
    delay_limit,    \* Controller.delay_limit
    pc,             \* position of the scheduler pass: the agent stepped next
    steps,          \* the scheduler's count of completed passes (ticks)
    prev,           \* history: the controller's fields before its latest step
    over_ticks,     \* history: per light, the consecutive tick ends at which its
                    \* waiting time was over the limit
    last_green,     \* history: the direction that was green at the latest tick
                    \* end with a green light ("none" before the first one)
    red_ticks       \* history: the consecutive tick ends, up to MaxRed, at
                    \* which every light was red

vars == <<traffic_lights, cells, green_lights, time, delay_limit, pc, steps,
          prev, over_ticks, last_green, red_ticks>>

(***************************************************************************)
(* Bounds of the model.                                                    *)
(***************************************************************************)
\* the number of ticks a run is followed for
MaxSteps == 96
\* the all-red tick ends counted before the count rests
MaxRed == 9
\* the traffic is set in the first tick and changes once more, in the tick
\* after LateBurst completed passes; between the two it stays as it is
LateBurst == 59

(***************************************************************************)
(* Program constants.                                                      *)
(***************************************************************************)
SenseRange == 10
DwellGrace == 7
EscalateDwell == 8
Margin == 6
BaseLimit == 60
LimitStep == 16

Directions == {"east", "west", "north", "south"}

\* the key order of the demands dictionary
DirOrder == <<"east", "west", "north", "south">>

\* the lanes the lights are registered for, in registration order: the
\* reference grid registers three lights per direction, east, west, north,
\* south; the model follows smaller registrations of the same kind
Layouts ==
    { <<"east", "east", "west">>,
      <<"east", "west", "north">>,
      <<"west", "north">> }

\* the occupancies of a lane's sensing window that the cars may produce
Windows == { {}, {0}, {1, 2, 4, 5, 7, 9}, 0..9 }

\* the ticks (by the count of completed passes) in which the traffic changes
BurstTicks == {0, LateBurst}

\* the tick, right after the late change, in which a car at a stop line may
\* leave its lane
ClearTick == LateBurst + 1

(***************************************************************************)
(* Traffic_light                                                           *)
(***************************************************************************)
Traffic_light(direction) ==
    [direction |-> direction, color |-> "red", demand |-> 0,
     waiting_time |-> 0, car_waiting |-> FALSE]

car_present(lane, i) == i \in lane

update_variables(l, i) ==
    [l EXCEPT !.demand = @ + 1,
              !.car_waiting = IF i = 0 THEN TRUE ELSE @,
              !.waiting_time = IF i = 0 THEN @ + 1 ELSE @]

RECURSIVE scan_cells(_, _, _)
scan_cells(l, lane, i) ==
    IF i >= SenseRange THEN l
    ELSE scan_cells(IF car_present(lane, i) THEN update_variables(l, i) ELSE l,
                    lane, i + 1)

\* calculate_demand adding to the demand of the previous tick
calculate_demand_cumulative(l, lane) ==
    scan_cells([l EXCEPT !.car_waiting = FALSE], lane, 0)

calculate_demand(l, lane) ==
    scan_cells([l EXCEPT !.demand = 0, !.car_waiting = FALSE], lane, 0)

\* timer3 without the dwell grace
timer3_no_grace(l, ctl_green_lights, ctl_time) ==
    IF l.direction = ctl_green_lights
    THEN [l EXCEPT !.color = "green", !.waiting_time = 0]
    ELSE [l EXCEPT !.color = "red"]

\* timer3 turning green one tick early
timer3_early(l, ctl_green_lights, ctl_time) ==
    IF l.direction = ctl_green_lights /\ ctl_time >= DwellGrace
    THEN [l EXCEPT !.color = "green", !.waiting_time = 0]
    ELSE [l EXCEPT !.color = "red"]

\* timer3 turning green one tick late
timer3_late(l, ctl_green_lights, ctl_time) ==
    IF l.direction = ctl_green_lights /\ ctl_time > DwellGrace + 1
    THEN [l EXCEPT !.color = "green", !.waiting_time = 0]
    ELSE [l EXCEPT !.color = "red"]

\* timer3 zeroing the waiting time of a red light too
timer3_clear(l, ctl_green_lights, ctl_time) ==
    IF l.direction = ctl_green_lights /\ ctl_time > DwellGrace
    THEN [l EXCEPT !.color = "green", !.waiting_time = 0]
    ELSE [l EXCEPT !.color = "red", !.waiting_time = 0]

\* timer3 leaving the waiting time of a green light as it is
timer3_keep_wait(l, ctl_green_lights, ctl_time) ==
    IF l.direction = ctl_green_lights /\ ctl_time > DwellGrace
    THEN [l EXCEPT !.color = "green"]
    ELSE [l EXCEPT !.color = "red"]

timer3(l, ctl_green_lights, ctl_time) ==
    IF l.direction = ctl_green_lights /\ ctl_time > DwellGrace
    THEN [l EXCEPT !.color = "green", !.waiting_time = 0]
    ELSE [l EXCEPT !.color = "red"]

(***************************************************************************)
(* Controller                                                              *)
(***************************************************************************)
RECURSIVE sum_demand(_, _, _)
sum_demand(tl, d, i) ==
    IF i > Len(tl) THEN 0
    ELSE (IF tl[i].direction = d THEN tl[i].demand ELSE 0) + sum_demand(tl, d, i + 1)

combine_demands(tl) == [d \in Directions |-> sum_demand(tl, d, 1)]

\* max(demands, key=demands.get): the first key, in dictionary order, of maximal value
highest_demand(demands) ==
    LET best == CHOOSE k \in 1..Len(DirOrder) :
                    /\ \A j \in 1..Len(DirOrder) : demands[DirOrder[j]] <= demands[DirOrder[k]]
                    /\ \A j \in 1..(k - 1) : demands[DirOrder[j]] < demands[DirOrder[k]]
    IN  DirOrder[best]

car_waiting(tl, gl) ==
    ~ \E i \in 1..Len(tl) : tl[i].direction = gl /\ tl[i].car_waiting = FALSE

\* check_delay_limit lowering the limit below its base
check_delay_limit_no_floor(limit, tl) ==
    IF \E i \in 1..Len(tl) : tl[i].waiting_time > limit - LimitStep
    THEN limit
    ELSE limit - LimitStep

\* check_delay_limit lowering the limit whenever no light is over it
check_delay_limit_eager(limit, tl) ==
    IF limit > BaseLimit
    THEN IF \E i \in 1..Len(tl) : tl[i].waiting_time > limit
         THEN limit
         ELSE limit - LimitStep
    ELSE limit

\* check_delay_limit that never lowers the limit from the first raised level
check_delay_limit_stuck(limit, tl) ==
    IF limit > BaseLimit + LimitStep
    THEN IF \E i \in 1..Len(tl) : tl[i].waiting_time > limit - LimitStep
         THEN limit
         ELSE limit - LimitStep
    ELSE limit

\* check_delay_limit lowering the limit as soon as one light is far from it
check_delay_limit_any(limit, tl) ==
    IF limit > BaseLimit
    THEN IF \A i \in 1..Len(tl) : tl[i].waiting_time > limit - LimitStep
         THEN limit
         ELSE limit - LimitStep
    ELSE limit

check_delay_limit(limit, tl) ==
    IF limit > BaseLimit
    THEN IF \E i \in 1..Len(tl) : tl[i].waiting_time > limit - LimitStep
         THEN limit
         ELSE limit - LimitStep
    ELSE limit

\* the lights whose waiting time is over the limit
LongWaiting(tl, limit) == { i \in 1..Len(tl) : tl[i].waiting_time > limit }

\* car_waiting_long taking the last light over the limit
car_waiting_long_last(ctl, tl) ==
    IF LongWaiting(tl, ctl.delay_limit) = {}
    THEN [ctl EXCEPT !.fired = FALSE]
    ELSE LET i == CHOOSE j \in LongWaiting(tl, ctl.delay_limit) :
                     \A k \in LongWaiting(tl, ctl.delay_limit) : j >= k
         IN  IF ctl.time > EscalateDwell
             THEN [green_lights |-> tl[i].direction, time |-> 0,
                   delay_limit |-> ctl.delay_limit + LimitStep, fired |-> TRUE]
             ELSE [ctl EXCEPT !.green_lights = tl[i].direction, !.fired = TRUE]

\* car_waiting_long escalating one tick later
car_waiting_long_late(ctl, tl) ==
    IF LongWaiting(tl, ctl.delay_limit) = {}
    THEN [ctl EXCEPT !.fired = FALSE]
    ELSE LET i == CHOOSE j \in LongWaiting(tl, ctl.delay_limit) :
                     \A k \in LongWaiting(tl, ctl.delay_limit) : j <= k
         IN  IF ctl.time > EscalateDwell + 1
             THEN [green_lights |-> tl[i].direction, time |-> 0,
                   delay_limit |-> ctl.delay_limit + LimitStep, fired |-> TRUE]
             ELSE [ctl EXCEPT !.green_lights = tl[i].direction, !.fired = TRUE]

\* car_waiting_long raising the limit without resetting the dwell counter
car_waiting_long_no_reset(ctl, tl) ==
    IF LongWaiting(tl, ctl.delay_limit) = {}
    THEN [ctl EXCEPT !.fired = FALSE]
    ELSE LET i == CHOOSE j \in LongWaiting(tl, ctl.delay_limit) :
                     \A k \in LongWaiting(tl, ctl.delay_limit) : j <= k
         IN  IF ctl.time > EscalateDwell
             THEN [green_lights |-> tl[i].direction, time |-> ctl.time,
                   delay_limit |-> ctl.delay_limit + LimitStep, fired |-> TRUE]
             ELSE [ctl EXCEPT !.green_lights = tl[i].direction, !.fired = TRUE]

\* car_waiting_long: the controller fields it leaves and the value it returns
car_waiting_long(ctl, tl) ==
    IF LongWaiting(tl, ctl.delay_limit) = {}
    THEN [ctl EXCEPT !.fired = FALSE]
    ELSE LET i == CHOOSE j \in LongWaiting(tl, ctl.delay_limit) :
                     \A k \in LongWaiting(tl, ctl.delay_limit) : j <= k
         IN  IF ctl.time > EscalateDwell
             THEN [green_lights |-> tl[i].direction, time |-> 0,
                   delay_limit |-> ctl.delay_limit + LimitStep, fired |-> TRUE]
             ELSE [ctl EXCEPT !.green_lights = tl[i].direction, !.fired = TRUE]

\* determine_light keeping the dwell counter on a hysteresis switch
determine_light_keep_time(ctl, tl) ==
    LET demands == combine_demands(tl)
        highest == highest_demand(demands)
        c1 == [ctl EXCEPT !.time = @ + 1]
        c2 == [c1 EXCEPT !.delay_limit = check_delay_limit(c1.delay_limit, tl)]
        c3 == car_waiting_long(c2, tl)
    IN  IF ~ c3.fired
           /\ demands[c3.green_lights] < demands[highest] - Margin
           /\ ~ car_waiting(tl, c3.green_lights)
        THEN [c3 EXCEPT !.green_lights = highest]
        ELSE c3

determine_light(ctl, tl) ==
    LET demands == combine_demands(tl)
        highest == highest_demand(demands)
        c1 == [ctl EXCEPT !.time = @ + 1]
        c2 == [c1 EXCEPT !.delay_limit = check_delay_limit(c1.delay_limit, tl)]
        c3 == car_waiting_long(c2, tl)
    IN  IF ~ c3.fired
           /\ demands[c3.green_lights] < demands[highest] - Margin
           /\ ~ car_waiting(tl, c3.green_lights)
        THEN [c3 EXCEPT !.green_lights = highest, !.time = 0]
        ELSE c3

(***************************************************************************)
(* Grid: construction and the scheduler pass                               *)
(***************************************************************************)
NLights == Len(traffic_lights)

Init ==
    /\ \E layout \in Layouts :
          traffic_lights = [i \in 1..Len(layout) |-> Traffic_light(layout[i])]
    /\ cells = [i \in 1..Len(traffic_lights) |-> {}]
    /\ green_lights = "east"
    /\ time = 0
    /\ delay_limit = BaseLimit
    /\ pc = 1
    /\ steps = 0
    /\ prev = [green_lights |-> green_lights, time |-> time, delay_limit |-> delay_limit]
    /\ over_ticks = [i \in 1..Len(traffic_lights) |-> 0]
    /\ last_green = "none"
    /\ red_ticks = 0

\* the occupancies lane i may show when light i senses it in this tick
Lanes(i) ==
    IF steps \in BurstTicks THEN Windows
    ELSE IF steps = ClearTick THEN {cells[i], cells[i] \ {0}}
    ELSE {cells[i]}

\* Traffic_light.step setting the color before sensing the lane
Traffic_light_step_color_first(i) ==
    /\ pc = i
    /\ i <= NLights
    /\ steps < MaxSteps
    /\ \E lane \in Lanes(i) :
          /\ cells' = [cells EXCEPT ![i] = lane]
          /\ traffic_lights' =
                [traffic_lights EXCEPT
                    ![i] = calculate_demand(timer3(@, green_lights, time), lane)]
    /\ pc' = pc + 1
    /\ UNCHANGED <<green_lights, time, delay_limit, steps, prev, over_ticks,
                   last_green, red_ticks>>

\* Traffic_light.step of light i; the cars have moved since its last step
Traffic_light_step(i) ==
    /\ pc = i
    /\ i <= NLights
    /\ steps < MaxSteps
    /\ \E lane \in Lanes(i) :
          /\ cells' = [cells EXCEPT ![i] = lane]
          /\ traffic_lights' =
                [traffic_lights EXCEPT
                    ![i] = timer3(calculate_demand(@, lane), green_lights, time)]
    /\ pc' = pc + 1
    /\ UNCHANGED <<green_lights, time, delay_limit, steps, prev, over_ticks,
                   last_green, red_ticks>>

\* Controller.step taking the place of the last light in the pass
Controller_step_early ==
    /\ pc = NLights
    /\ steps < MaxSteps
    /\ LET c == determine_light(
                   [green_lights |-> green_lights, time |-> time,
                    delay_limit |-> delay_limit, fired |-> FALSE],
                   traffic_lights)
       IN  /\ green_lights' = c.green_lights
           /\ time' = c.time
           /\ delay_limit' = c.delay_limit
    /\ pc' = 1
    /\ steps' = steps + 1
    /\ prev' = [green_lights |-> green_lights, time |-> time, delay_limit |-> delay_limit]
    /\ over_ticks' = [i \in 1..NLights |->
                        IF traffic_lights[i].waiting_time > delay_limit'
                        THEN over_ticks[i] + 1 ELSE 0]
    /\ LET green == { traffic_lights[i].direction : i \in
                        { j \in 1..NLights : traffic_lights[j].color = "green" } }
       IN  IF green = {}
           THEN /\ last_green' = last_green
                /\ red_ticks' = IF red_ticks < MaxRed THEN red_ticks + 1 ELSE red_ticks
           ELSE /\ last_green' = CHOOSE d \in green : TRUE
                /\ red_ticks' = 0
    /\ UNCHANGED <<traffic_lights, cells>>

\* Controller.step, registered after the lights
Controller_step ==
    /\ pc = NLights + 1
    /\ steps < MaxSteps
    /\ LET c == determine_light(
                   [green_lights |-> green_lights, time |-> time,
                    delay_limit |-> delay_limit, fired |-> FALSE],
                   traffic_lights)
       IN  /\ green_lights' = c.green_lights
           /\ time' = c.time
           /\ delay_limit' = c.delay_limit
    /\ pc' = 1
    /\ steps' = steps + 1
    /\ prev' = [green_lights |-> green_lights, time |-> time, delay_limit |-> delay_limit]
    /\ over_ticks' = [i \in 1..NLights |->
                        IF traffic_lights[i].waiting_time > delay_limit'
                        THEN over_ticks[i] + 1 ELSE 0]
    /\ LET green == { traffic_lights[i].direction : i \in
                        { j \in 1..NLights : traffic_lights[j].color = "green" } }
       IN  IF green = {}
           THEN /\ last_green' = last_green
                /\ red_ticks' = IF red_ticks < MaxRed THEN red_ticks + 1 ELSE red_ticks
           ELSE /\ last_green' = CHOOSE d \in green : TRUE
                /\ red_ticks' = 0
    /\ UNCHANGED <<traffic_lights, cells>>

Next ==
    \/ \E i \in 1..NLights : Traffic_light_step(i)
    \/ Controller_step

Spec == Init /\ [][Next]_vars

(***************************************************************************)
(* Vocabulary of the properties, stated from the state alone.              *)
(***************************************************************************)
Lights == 1..NLights
IsGreen(i) == traffic_lights[i].color = "green"
Dir(i) == traffic_lights[i].direction
Wait(i) == traffic_lights[i].waiting_time

\* the controller has just been stepped: the pass of a tick is complete
TickEnd == pc = 1 /\ steps > 0
\* every light has been stepped in this pass, the controller not yet
BeforeController == pc = NLights + 1

(***************************************************************************)
(* C1. Mutual exclusion: in every state, between any two agent steps of a  *)
(* pass too, all green lights have the same direction.                     *)
(***************************************************************************)
C1_MutualExclusion ==
    \A i, j \in Lights : IsGreen(i) /\ IsGreen(j) => Dir(i) = Dir(j)

\* in the middle of a pass a light is still green for the direction that lost
\* the authorization, while a light of another direction was already stepped
C1_Witness ==
    /\ pc > 1
    /\ \E i, j \in Lights :
          /\ j < pc /\ pc <= i
          /\ IsGreen(i) /\ Dir(i) # green_lights /\ Dir(j) = green_lights

(***************************************************************************)
(* C2 as claimed: in every state a green light has the authorized          *)
(* direction and the dwell counter is over 7.                              *)
(***************************************************************************)
C2_GreenImpliesAuthorized ==
    \A i \in Lights : IsGreen(i) => Dir(i) = green_lights /\ time > 7

(***************************************************************************)
(* C2 amended: a green light that was already stepped in the current pass, *)
(* the controller not yet, has the authorized direction and the dwell      *)
(* counter is over 7.  (A light keeps its color from the controller's step *)
(* to its own next step.)                                                  *)
(***************************************************************************)
C2_GreenAfterOwnStep ==
    \A i \in Lights : i < pc /\ IsGreen(i) => Dir(i) = green_lights /\ time > 7

C2_Witness ==
    /\ BeforeController
    /\ \E i, j \in Lights : IsGreen(i) /\ ~ IsGreen(j) /\ Dir(j) # Dir(i)

(***************************************************************************)
(* C3 as claimed: the starvation threshold stays within 60..76.            *)
(***************************************************************************)
C3_LimitInRange == delay_limit \in 60..76

(***************************************************************************)
(* The controller's latest step, read back at the end of the tick: the     *)
(* lights are as the controller saw them, prev holds its fields before.    *)
(***************************************************************************)
CarAtLine(i) == traffic_lights[i].car_waiting

RECURSIVE DemandOver(_, _)
DemandOver(S, d) ==
    IF S = {} THEN 0
    ELSE LET i == CHOOSE x \in S : TRUE
         IN  (IF Dir(i) = d THEN traffic_lights[i].demand ELSE 0)
                 + DemandOver(S \ {i}, d)

\* the aggregated demand of direction d
Demand(d) == DemandOver(Lights, d)

\* the direction of maximal demand, ties resolved east, west, north, south
MaxDemand == IF Demand("east") >= Demand("west") /\ Demand("east") >= Demand("north")
                   /\ Demand("east") >= Demand("south") THEN "east"
             ELSE IF Demand("west") >= Demand("north") /\ Demand("west") >= Demand("south")
                  THEN "west"
             ELSE IF Demand("north") >= Demand("south") THEN "north"
             ELSE "south"

\* the threshold as it stood after the governor decay of the latest step
DecayedLimit ==
    IF prev.delay_limit > 60 /\ \A i \in Lights : Wait(i) <= prev.delay_limit - 16
    THEN prev.delay_limit - 16
    ELSE prev.delay_limit

\* the lights the starvation check of the latest step found over the threshold
Starving == { i \in Lights : Wait(i) > DecayedLimit }
FirstStarving == CHOOSE i \in Starving : \A j \in Starving : i <= j

OverrideTick == TickEnd /\ Starving # {}
\* a tick whose change of direction was made by the demand comparison
HysteresisSwitch == TickEnd /\ Starving = {} /\ green_lights # prev.green_lights

(***************************************************************************)
(* C4 in a form a finite run refutes: a light at whose stop line a car     *)
(* stood on every tick of a run of MaxSteps ticks has been green in the    *)
(* run.  (The waiting time counts the ticks with a car at the line since   *)
(* the light was last green: it equals the tick count exactly when the car *)
(* was there on every tick and the light was never green.)                 *)
(***************************************************************************)
C4_GreenWithinRun ==
    TickEnd /\ steps = MaxSteps => \A i \in Lights : Wait(i) < steps

(***************************************************************************)
(* C5 as claimed: no light's waiting time is over the threshold at two     *)
(* consecutive tick ends.                                                  *)
(***************************************************************************)
C5_OverAtMostOneTick == \A i \in Lights : over_ticks[i] <= 1

(***************************************************************************)
(* C5 amended: no light's waiting time is over the threshold at more than  *)
(* 8 consecutive tick ends.                                                *)
(***************************************************************************)
C5_OverAtMostEightTicks == \A i \in Lights : over_ticks[i] <= 8

C5_Witness == \E i \in Lights : over_ticks[i] = 8

(***************************************************************************)
(* C6 as claimed: a hysteresis switch happens only in a tick in which no   *)
(* light of the direction authorized before has a car at its stop line.    *)
(***************************************************************************)
C6_QueueDrainGate ==
    HysteresisSwitch =>
        \A i \in Lights : Dir(i) = prev.green_lights => ~ CarAtLine(i)

C8_DwellResetOnChange ==
    TickEnd /\ green_lights # prev.green_lights => time = 0

(***************************************************************************)
(* C8 amended: after a tick that changed the authorized direction the      *)
(* dwell counter is 0, unless the starvation override made the change with *)
(* the incremented dwell counter at 8 or less: then the dwell counter      *)
(* keeps its incremented value.                                            *)
(***************************************************************************)
C8_DwellResetUnlessEarlyOverride ==
    TickEnd /\ green_lights # prev.green_lights =>
        IF Starving # {} /\ prev.time + 1 <= 8
        THEN time = prev.time + 1
        ELSE time = 0

C8_Witness ==
    /\ TickEnd /\ green_lights # prev.green_lights
    /\ Starving # {} /\ time = prev.time + 1

(***************************************************************************)
(* C9: in a tick in which some light's waiting time is over the threshold  *)
(* (as decayed in that tick), the authorized direction after the tick is   *)
(* the direction of the first such light in registration order, whatever   *)
(* the demands.                                                            *)
(***************************************************************************)
C9_OverrideFirstStarving ==
    OverrideTick => green_lights = Dir(FirstStarving)

\* two lights of different directions are over the threshold, and the demand
\* comparison would have chosen the direction of the second
C9_Witness ==
    /\ OverrideTick
    /\ \E i, j \in Starving : i < j /\ Dir(i) # Dir(j)
    /\ MaxDemand # Dir(FirstStarving)
    /\ Demand(Dir(FirstStarving)) < Demand(MaxDemand) - 6
    /\ green_lights = Dir(FirstStarving)

(***************************************************************************)
(* C10: in a tick in which the starvation override fires, if the           *)
(* incremented dwell counter is over 8, the dwell counter becomes 0 and    *)
(* the threshold grows by exactly 16; else the threshold is unchanged and  *)
(* the dwell counter keeps its incremented value.                          *)
(***************************************************************************)
C10_Escalation ==
    OverrideTick =>
        IF prev.time + 1 > 8
        THEN time = 0 /\ delay_limit = prev.delay_limit + 16
        ELSE time = prev.time + 1 /\ delay_limit = prev.delay_limit

C10_Witness ==
    /\ OverrideTick /\ prev.time + 1 > 8
    /\ time = 0 /\ delay_limit = prev.delay_limit + 16 /\ delay_limit > 76

(***************************************************************************)
(* C11 as claimed: over one controller step the limit changes by +16, -16  *)
(* or 0; it rises only when some light waits longer than the limit, and it *)
(* falls only when the limit was over 60 and every light's waiting time is *)
(* strictly below the limit minus 16.                                      *)
(***************************************************************************)
C11_DecayStrictlyBelow ==
    TickEnd =>
        /\ delay_limit - prev.delay_limit \in {16, -16, 0}
        /\ delay_limit > prev.delay_limit =>
               \E i \in Lights : Wait(i) > prev.delay_limit
        /\ delay_limit < prev.delay_limit =>
               /\ prev.delay_limit > 60
               /\ \A i \in Lights : Wait(i) < prev.delay_limit - 16

(***************************************************************************)
(* C11 amended: over one controller step the limit changes by +16, -16 or  *)
(* 0; it rises only when some light waits longer than the limit, and it    *)
(* falls only when the limit was over 60 and no light's waiting time is    *)
(* over the limit minus 16 (a waiting time equal to it allows the fall).   *)
(***************************************************************************)
C11_DecayAtOrBelow ==
    TickEnd =>
        /\ delay_limit - prev.delay_limit \in {16, -16, 0}
        /\ delay_limit > prev.delay_limit =>
               \E i \in Lights : Wait(i) > prev.delay_limit
        /\ delay_limit < prev.delay_limit =>
               /\ prev.delay_limit > 60
               /\ \A i \in Lights : Wait(i) <= prev.delay_limit - 16

\* the limit fell while a light's waiting time was exactly the old limit
\* minus 16
C11_Witness ==
    /\ TickEnd
    /\ delay_limit < prev.delay_limit
    /\ \E i \in Lights : Wait(i) = prev.delay_limit - 16

(***************************************************************************)
(* C12. Governor decay: when the controller steps with every light's       *)
(* waiting time below the limit minus 16, a limit over 60 falls by exactly *)
(* 16 (from 76 to 60 when all waiting times are below 60) and a limit of   *)
(* 60 stays; so the limit falls by 16 per tick down to 60 and rests there. *)
(***************************************************************************)
C12_GovernorDecay ==
    TickEnd /\ (\A i \in Lights : Wait(i) < prev.delay_limit - 16) =>
        delay_limit = IF prev.delay_limit > 60
                      THEN prev.delay_limit - 16
                      ELSE prev.delay_limit

\* the limit has just fallen from 76 to 60, all waiting times below 60
C12_Witness ==
    /\ TickEnd
    /\ prev.delay_limit = 76 /\ delay_limit = 60
    /\ \A i \in Lights : Wait(i) < 60

(***************************************************************************)
(* C13. A green light has waiting time 0: each light's step ends with the  *)
(* color update, which zeroes the waiting time of a light it turns green,  *)
(* also when the sensing of the same step counted a car at the stop line.  *)
(***************************************************************************)
C13_GreenResetsWait ==
    \A i \in Lights : IsGreen(i) => Wait(i) = 0

\* a light just stepped is green with a car at its stop line
C13_Witness ==
    \E i \in Lights :
        /\ pc = i + 1
        /\ IsGreen(i) /\ CarAtLine(i) /\ 0 \in cells[i]
        /\ Wait(i) = 0

(***************************************************************************)
(* C14. Lane sensing: in every state a light's demand is the number of     *)
(* occupied cells at the offsets 0..9 of its lane as it last sensed it     *)
(* (whatever the demand was before) and car_waiting tells whether offset 0 *)
(* is occupied, so an empty window gives demand 0 and car_waiting false;   *)
(* and a light's step adds exactly 1 to its waiting time when offset 0 is  *)
(* occupied and nothing otherwise, before the color update zeroes the      *)
(* waiting time of a green light.                                          *)
(***************************************************************************)
C14_LaneSensing ==
    /\ [](\A i \in Lights :
            /\ traffic_lights[i].demand = Cardinality(cells[i] \cap (0..9))
            /\ traffic_lights[i].demand \in 0..10
            /\ CarAtLine(i) <=> 0 \in cells[i])
    /\ [][\A i \in Lights :
            pc = i /\ pc' = i + 1 /\ traffic_lights'[i].color = "red" =>
                traffic_lights'[i].waiting_time =
                    Wait(i) + (IF 0 \in cells'[i] THEN 1 ELSE 0)]_vars

\* a light that has waited before senses six cars behind a free stop line
C14_Witness ==
    \E i \in Lights :
        /\ pc = i + 1
        /\ cells[i] = {1, 2, 4, 5, 7, 9}
        /\ traffic_lights[i].demand = 6 /\ ~ CarAtLine(i)
        /\ Wait(i) > 0

(***************************************************************************)
(* C15. Color rule: a light that was stepped in the current pass, the      *)
(* controller not yet, is green exactly when its direction is the          *)
(* authorized one and the dwell counter is over 7, and red otherwise.      *)
(***************************************************************************)
C15_ColorRule ==
    \A i \in Lights :
        i < pc =>
            /\ IsGreen(i) <=> (Dir(i) = green_lights /\ time > 7)
            /\ ~ IsGreen(i) <=> traffic_lights[i].color = "red"

\* a light of the authorized direction is stepped red at dwell 7, a car at
\* its stop line
C15_Witness ==
    \E i \in Lights :
        /\ i < pc
        /\ Dir(i) = green_lights /\ time = 7
        /\ ~ IsGreen(i) /\ CarAtLine(i)

(***************************************************************************)
(* C16. Tick ordering: a pass steps the lights one by one in registration  *)
(* order, each once, and then the controller, which ends the tick; a       *)
(* light's step leaves the other lights and the controller alone.  So the  *)
(* controller decides on the demand sensed in the same tick (a hysteresis  *)
(* switch goes to the direction of maximal current demand, more than 6     *)
(* over the current demand of the direction left), and at the end of a     *)
(* tick a light is green exactly when its direction was authorized and the *)
(* dwell counter over 7 at the end of the tick before.                     *)
(***************************************************************************)
C16_TickOrdering ==
    /\ [][\/ /\ pc \in Lights /\ pc' = pc + 1 /\ steps' = steps
             /\ \A j \in Lights \ {pc} : traffic_lights'[j] = traffic_lights[j]
             /\ green_lights' = green_lights /\ time' = time
             /\ delay_limit' = delay_limit
          \/ /\ pc = NLights + 1 /\ pc' = 1 /\ steps' = steps + 1
             /\ traffic_lights' = traffic_lights]_vars
    /\ [](TickEnd =>
            /\ \A i \in Lights :
                  /\ IsGreen(i) <=> (Dir(i) = prev.green_lights /\ prev.time > 7)
                  /\ traffic_lights[i].demand = Cardinality(cells[i])
            /\ HysteresisSwitch =>
                  /\ green_lights = MaxDemand
                  /\ Demand(prev.green_lights) < Demand(MaxDemand) - 6)

\* at the end of a tick the controller has switched on the demand of this
\* tick while a light of the direction it left is still green
C16_Witness ==
    /\ HysteresisSwitch
    /\ steps > 1
    /\ \E i \in Lights : IsGreen(i) /\ Dir(i) = prev.green_lights
    /\ \E i \in Lights : Dir(i) = green_lights /\ traffic_lights[i].demand > 6

(***************************************************************************)
(* C17. All-red interlock: when a light is green and the latest green      *)
(* before was of another direction, at least 7 tick ends with every light  *)
(* red lie between the two, whether the direction changed by hysteresis or *)
(* by a starvation override, with or without a reset of the dwell counter. *)
(***************************************************************************)
C17_AllRedInterlock ==
    \A i \in Lights :
        IsGreen(i) /\ last_green # "none" /\ last_green # Dir(i) =>
            red_ticks >= 7

\* a light turns green that was over the limit until the tick before (its
\* override left the dwell counter running), after another direction and
\* 8 all-red tick ends
C17_Witness ==
    \E i \in Lights :
        /\ pc = i + 1
        /\ IsGreen(i) /\ over_ticks[i] > 0
        /\ last_green # "none" /\ last_green # Dir(i)
        /\ red_ticks = 8

(***************************************************************************)
(* C18. Waiting-time frame: the step of a light leaves its waiting time at *)
(* 0 when it ends green, one higher when it ends red with a car at offset  *)
(* 0, and unchanged when it ends red with offset 0 free; it changes no     *)
(* other light, and the step of the controller changes no light at all.    *)
(* So over a tick a waiting time is zeroed, raised by 1 or kept.           *)
(***************************************************************************)
C18_WaitingTimeFrame ==
    [][/\ \A i \in Lights :
             IF pc = i
             THEN traffic_lights'[i].waiting_time =
                      IF traffic_lights'[i].color = "green" THEN 0
                      ELSE IF 0 \in cells'[i] THEN Wait(i) + 1
                      ELSE Wait(i)
             ELSE traffic_lights'[i] = traffic_lights[i]
       /\ pc = NLights + 1 => traffic_lights' = traffic_lights]_vars

\* a light that has waited is stepped red with its stop line free, and the
\* controller has stepped since
C18_Witness ==
    /\ TickEnd
    /\ \E i \in Lights : ~ IsGreen(i) /\ ~ (0 \in cells[i]) /\ Wait(i) > 0

(***************************************************************************)
(* The controller's procedure with the governor decay evaluated after the  *)
(* starvation check instead of before it.                                  *)
(***************************************************************************)
DecayAfterStarvation(ctl, tl) ==
    LET demands == combine_demands(tl)
        highest == highest_demand(demands)
        c1 == [ctl EXCEPT !.time = @ + 1]
        c2 == car_waiting_long(c1, tl)
        c3 == [c2 EXCEPT !.delay_limit = check_delay_limit(c2.delay_limit, tl)]
    IN  IF ~ c3.fired
           /\ demands[c3.green_lights] < demands[highest] - 6
           /\ ~ car_waiting(tl, c3.green_lights)
        THEN [c3 EXCEPT !.green_lights = highest, !.time = 0]
        ELSE c3

\* the starvation check of the latest controller step, run on the limit the
\* governor left
StarvationCheck ==
    car_waiting_long(
        [green_lights |-> prev.green_lights, time |-> prev.time + 1,
         delay_limit |-> check_delay_limit(prev.delay_limit, traffic_lights),
         fired |-> FALSE],
        traffic_lights)

(***************************************************************************)
(* C19. Decay and starvation exclude each other: in no controller step     *)
(* does the governor lower the limit and the starvation override fire;     *)
(* when the limit has fallen no light waits longer than the new limit and  *)
(* the limit is not raised in the same step; and the controller's fields   *)
(* after the step are those the procedure gives with the decay evaluated   *)
(* after the starvation check.                                             *)
(***************************************************************************)
C19_DecayExcludesStarvation ==
    TickEnd =>
        /\ ~ (/\ check_delay_limit(prev.delay_limit, traffic_lights)
                  < prev.delay_limit
              /\ StarvationCheck.fired)
        /\ delay_limit < prev.delay_limit =>
              /\ \A i \in Lights : Wait(i) <= delay_limit
              /\ delay_limit = prev.delay_limit - 16
        /\ check_delay_limit(prev.delay_limit, traffic_lights) < prev.delay_limit
              => delay_limit < prev.delay_limit
        /\ LET c == DecayAfterStarvation(
                        [green_lights |-> prev.green_lights, time |-> prev.time,
                         delay_limit |-> prev.delay_limit, fired |-> FALSE],
                        traffic_lights)
           IN  /\ green_lights = c.green_lights
               /\ time = c.time
               /\ delay_limit = c.delay_limit

\* the limit has fallen to 60, at a dwell that would have let an override
\* raise it, and a light's waiting time is exactly 60
C19_Witness ==
    /\ TickEnd
    /\ prev.time >= 8
    /\ prev.delay_limit = 76 /\ delay_limit = 60
    /\ \E i \in Lights : ~ IsGreen(i) /\ Wait(i) = 60

(***************************************************************************)
(* C20. Escalation always changes direction: when the controller is about  *)
(* to step and its incremented dwell counter will be over 8, no light of   *)
(* the authorized direction has a waiting time above 0; and when the       *)
(* starvation override has fired at such a dwell (the limit has risen by   *)
(* 16, the dwell counter is 0), the first light over the limit, which      *)
(* triggered it, has a direction other than the one authorized before the  *)
(* step, and the authorized direction has changed to it.                   *)
(***************************************************************************)
C20_EscalationChangesDirection ==
    /\ BeforeController /\ time + 1 > 8 =>
            \A i \in Lights : Dir(i) = green_lights => Wait(i) = 0
    /\ OverrideTick /\ prev.time + 1 > 8 =>
            /\ Dir(FirstStarving) # prev.green_lights
            /\ green_lights = Dir(FirstStarving)
            /\ green_lights # prev.green_lights
    /\ TickEnd /\ delay_limit > prev.delay_limit =>
            green_lights # prev.green_lights

\* the limit has just been raised against a direction whose light is green
\* with a car at its stop line
C20_Witness ==
    /\ OverrideTick /\ prev.time + 1 > 8
    /\ delay_limit = prev.delay_limit + 16
    /\ \E i \in Lights :
          /\ Dir(i) = prev.green_lights
          /\ IsGreen(i) /\ CarAtLine(i) /\ Wait(i) = 0

(***************************************************************************)
(* C21. Threshold lattice and floor: in every state the limit is at least  *)
(* 60 and is 60 plus a multiple of 16, and the dwell counter is a natural  *)
(* number; before the first step of the first pass the limit is 60, the    *)
(* dwell counter 0, the authorized direction east and every light red.     *)
(***************************************************************************)
C21_ThresholdLattice ==
    /\ delay_limit >= 60
    /\ \E k \in 0..(MaxSteps + 1) : delay_limit = 60 + 16 * k
    /\ time \in Nat
    /\ steps = 0 /\ pc = 1 =>
          /\ delay_limit = 60 /\ time = 0 /\ green_lights = "east"
          /\ \A i \in Lights : traffic_lights[i].color = "red"

\* the limit stands two levels over its base in the middle of a pass, the
\* dwell counter running again
C21_Witness ==
    /\ pc > 1
    /\ delay_limit = 60 + 16 * 2
    /\ time > 0

====
